---- MODULE Spec2Model ----
(***************************************************************************)
(* Scheduling policies of pa2.c (FCFS, SJF, STCF, RR, Priority,            *)
(* Priority+Aging, PCP) together with the tick loop of the simulation      *)
(* framework that calls them.  The ready queue and the wait queues are     *)
(* the kernel-style lists of list_head.h, kept here as sequences of pids   *)
(* in list order (head first).                                             *)
(***************************************************************************)
EXTENDS Integers, Sequences, FiniteSets, TLC

\* ------------------------------------------------------------------ bounds
NProc == 3          \* processes of the simulated workload
MaxLife == 3        \* largest lifespan under FCFS, SJF, STCF and RR
MaxLifeStcf == 4    \* largest lifespan when STCF is explored on its own
MaxLifeLive == 2    \* largest lifespan when completion is explored
MaxRun == 2         \* largest lifespan under Priority, Priority+Aging and PCP
MaxPrioOrig == 2    \* largest base priority under Priority
MaxPrioMoved == 1   \* largest base priority under Priority+Aging and PCP
NR_RESOURCES == 2   \* size of resources[] explored

\* --------------------------------------------------------------- constants
MAX_PRIO == 64      \* ceiling used by pcp_acquire

NULL == 0
Procs == 1..NProc
Resources == 0..(NR_RESOURCES - 1)
NoRes == NR_RESOURCES    \* "no resource" in the call record

Policies == {"FCFS", "SJF", "STCF", "RR", "PRIO", "PA", "PCP"}

\* The workloads explored.  The callbacks of FCFS, SJF, STCF and RR never
\* read prio, so base priorities vary only under the three policies that
\* compare them; those run shorter processes.  Priority never changes prio
\* and needs three base levels for two processes of different prio to wait
\* behind a third; aging and the ceiling move prio themselves.
Lifespans(pol) ==
    IF pol \in {"PRIO", "PA", "PCP"} THEN 1..MaxRun ELSE 1..MaxLife

BasePrios(pol) ==
    IF pol = "PRIO" THEN 0..MaxPrioOrig
    ELSE IF pol \in {"PA", "PCP"} THEN 0..MaxPrioMoved
    ELSE {0}

VARIABLES
    policy,      \* the scheduler the simulation was started with
    lifespan,    \* process -> total ticks to run
    prio_orig,   \* process -> base priority
    status,      \* process -> "NONE" | "READY" | "RUNNING" | "BLOCKED" | "EXITED"
    age,         \* process -> ticks run so far
    prio,        \* process -> current priority
    current,     \* the process picked for this tick, or NULL
    readyqueue,  \* sequence of pids
    waitqueue,   \* resource -> sequence of pids
    owner,       \* resource -> pid or NULL
    pc,          \* position of the tick loop: "sched" | "acq" | "rel" | "abort"
    call,        \* the last policy callback and what it returned
    want         \* process -> the resource it was refused and asks for again,
                 \* or NoRes; kept only by the driver of SpecLive

vars == <<policy, lifespan, prio_orig, status, age, prio, current,
          readyqueue, waitqueue, owner, pc, call, want>>

\* The part of the state the policy callbacks read and write.
Machine ==
    [current |-> current, status |-> status, prio |-> prio,
     readyqueue |-> readyqueue, waitqueue |-> waitqueue, owner |-> owner]

NoCall == [fn |-> "none", rid |-> NoRes, ok |-> FALSE, proc |-> NULL]

\* ------------------------------------------------------------ list_head.h
RECURSIVE Without(_, _)
Without(q, p) ==
    IF q = <<>> THEN <<>>
    ELSE IF Head(q) = p THEN Without(Tail(q), p)
    ELSE <<Head(q)>> \o Without(Tail(q), p)

list_empty(q) == q = <<>>

list_first_entry(q) == Head(q)

\* Unlink p from whichever list holds it.
list_del_init(m, p) ==
    [m EXCEPT !.readyqueue = Without(@, p),
              !.waitqueue = [r \in Resources |-> Without(@[r], p)]]

\* list_add(&p->list, &readyqueue): insert right after the head.
list_add_ready(m, p) == [m EXCEPT !.readyqueue = <<p>> \o @]

\* list_add_tail(&p->list, &readyqueue)
list_add_tail_ready(m, p) == [m EXCEPT !.readyqueue = Append(@, p)]

\* list_add_tail(&p->list, &r->waitqueue)
list_add_tail_wait(m, r, p) == [m EXCEPT !.waitqueue[r] = Append(@, p)]

\* list_move_tail(&p->list, &readyqueue)
list_move_tail_ready(m, p) == list_add_tail_ready(list_del_init(m, p), p)

\* ------------------------------------------------- acquire / release, FCFS
\* Result of a callback: the machine it leaves behind and what it returns.
Ret(m, ok, proc) == [m |-> m, ok |-> ok, proc |-> proc]

\* Variant of fcfs_acquire without the "return true" of the free branch: the
\* requester takes the resource and falls through to the blocking path.
fcfs_acquire_falls_through(m, r) ==
    LET m1 == IF m.owner[r] = NULL THEN [m EXCEPT !.owner[r] = m.current] ELSE m
    IN  Ret(list_add_tail_wait([m1 EXCEPT !.status[m.current] = "BLOCKED"],
                               r, m.current),
            FALSE, NULL)

fcfs_acquire(m, r) ==
    IF m.owner[r] = NULL
    THEN Ret([m EXCEPT !.owner[r] = m.current], TRUE, NULL)
    ELSE Ret(list_add_tail_wait([m EXCEPT !.status[m.current] = "BLOCKED"],
                                r, m.current),
             FALSE, NULL)

\* Variant of fcfs_waiter that takes the last entry of the wait queue.
fcfs_waiter_last(m, r) == m.waitqueue[r][Len(m.waitqueue[r])]

\* The waiter fcfs_release wakes: the one that came first.
fcfs_waiter(m, r) == list_first_entry(m.waitqueue[r])

\* Variant of wake_up that marks the waiter RUNNING instead of READY.
wake_up_running(m, waiter) ==
    IF m.status[waiter] # "BLOCKED" THEN Ret(m, FALSE, NULL)
    ELSE Ret(list_add_tail_ready(
                [list_del_init(m, waiter) EXCEPT !.status[waiter] = "RUNNING"],
                waiter),
             TRUE, NULL)

\* assert(waiter->status == PROCESS_BLOCKED), then move the waiter from its
\* wait queue to the tail of the ready queue.  A release callback returns
\* nothing: ok tells whether its assertions passed; a failed assertion
\* aborts the simulation with the state as it is at that point.
wake_up(m, waiter) ==
    IF m.status[waiter] # "BLOCKED" THEN Ret(m, FALSE, NULL)
    ELSE Ret(list_add_tail_ready(
                [list_del_init(m, waiter) EXCEPT !.status[waiter] = "READY"],
                waiter),
             TRUE, NULL)

\* Variant of fcfs_release that wakes no waiter.
fcfs_release_wakes_nobody(m, r) ==
    IF m.owner[r] # m.current THEN Ret(m, FALSE, NULL)
    ELSE Ret([m EXCEPT !.owner[r] = NULL], TRUE, NULL)

fcfs_release(m, r) ==
    IF m.owner[r] # m.current THEN Ret(m, FALSE, NULL)
    ELSE LET m1 == [m EXCEPT !.owner[r] = NULL]
         IN  IF ~list_empty(m1.waitqueue[r])
             THEN wake_up(m1, fcfs_waiter(m1, r))
             ELSE Ret(m1, TRUE, NULL)

\* ------------------------------------------------------------- pick loops
\* list_for_each_entry(tmp, q, list) if (tmp->prio > next->prio) next = tmp;
\* started with next = first entry.  i is the cursor into q.
\* Variant of prio_higher with >= for >.
prio_higher_or_equal(pr, tmp, next) == pr[tmp] >= pr[next]

prio_higher(pr, tmp, next) == pr[tmp] > pr[next]

RECURSIVE scan_max_prio(_, _, _, _)
scan_max_prio(q, pr, i, next) ==
    IF i > Len(q) THEN next
    ELSE scan_max_prio(q, pr, i + 1,
                       IF prio_higher(pr, q[i], next) THEN q[i] ELSE next)

max_prio_entry(q, pr) == scan_max_prio(q, pr, 1, list_first_entry(q))

\* list_for_each_entry(compare, q, list)
\*     if (compare->lifespan < next->lifespan) next = compare;
\* Variant of sjf_shorter with <= for <.
sjf_shorter_or_equal(ls, compare, next) == ls[compare] <= ls[next]

sjf_shorter(ls, compare, next) == ls[compare] < ls[next]

RECURSIVE scan_min_lifespan(_, _, _, _)
scan_min_lifespan(q, ls, i, next) ==
    IF i > Len(q) THEN next
    ELSE scan_min_lifespan(q, ls, i + 1,
                           IF sjf_shorter(ls, q[i], next) THEN q[i] ELSE next)

min_lifespan_entry(q, ls) == scan_min_lifespan(q, ls, 1, list_first_entry(q))

\* ------------------------------------- acquire / release, priority policies
prio_acquire(m, r) ==
    IF m.owner[r] = NULL
    THEN Ret([m EXCEPT !.owner[r] = m.current], TRUE, NULL)
    ELSE Ret(list_add_tail_wait([m EXCEPT !.status[m.current] = "BLOCKED"],
                                r, m.current),
             FALSE, NULL)

prio_release(m, r) ==
    IF m.owner[r] # m.current THEN Ret(m, FALSE, NULL)
    ELSE LET m1 == [m EXCEPT !.owner[r] = NULL]
         IN  IF ~list_empty(m1.waitqueue[r])
             THEN wake_up(m1, max_prio_entry(m1.waitqueue[r], m1.prio))
             ELSE Ret(m1, TRUE, NULL)

pa_acquire(m, r) ==
    IF m.owner[r] = NULL
    THEN Ret([m EXCEPT !.owner[r] = m.current], TRUE, NULL)
    ELSE Ret(list_add_tail_wait([m EXCEPT !.status[m.current] = "BLOCKED"],
                                r, m.current),
             FALSE, NULL)

\* Variant of pa_release that un-owns every resource of the caller.
pa_release_all(m, r) ==
    IF m.owner[r] # m.current THEN Ret(m, FALSE, NULL)
    ELSE LET m1 == [m EXCEPT !.owner = [x \in Resources |->
                        IF m.owner[x] = m.current THEN NULL ELSE m.owner[x]]]
         IN  IF ~list_empty(m1.waitqueue[r])
             THEN wake_up(m1, max_prio_entry(m1.waitqueue[r], m1.prio))
             ELSE Ret(m1, TRUE, NULL)

pa_release(m, r) ==
    IF m.owner[r] # m.current THEN Ret(m, FALSE, NULL)
    ELSE LET m1 == [m EXCEPT !.owner[r] = NULL]
         IN  IF ~list_empty(m1.waitqueue[r])
             THEN wake_up(m1, max_prio_entry(m1.waitqueue[r], m1.prio))
             ELSE Ret(m1, TRUE, NULL)

\* Variant of pcp_acquire that queues the requester with list_add (at the
\* head) instead of list_add_tail.
pcp_acquire_at_head(m, r) ==
    IF m.owner[r] = NULL
    THEN Ret([m EXCEPT !.owner[r] = m.current, !.prio[m.current] = MAX_PRIO],
             TRUE, NULL)
    ELSE Ret([m EXCEPT !.status[m.current] = "BLOCKED",
                       !.waitqueue[r] = <<m.current>> \o @],
             FALSE, NULL)

pcp_acquire(m, r) ==
    IF m.owner[r] = NULL
    THEN Ret([m EXCEPT !.owner[r] = m.current, !.prio[m.current] = MAX_PRIO],
             TRUE, NULL)
    ELSE Ret(list_add_tail_wait([m EXCEPT !.status[m.current] = "BLOCKED"],
                                r, m.current),
             FALSE, NULL)

\* Variant of pcp_release that leaves the releasing process's prio alone.
pcp_release_keeps_prio(m, r, po) ==
    IF m.owner[r] # m.current THEN Ret(m, FALSE, NULL)
    ELSE LET m1 == [m EXCEPT !.owner[r] = NULL]
         IN  IF ~list_empty(m1.waitqueue[r])
             THEN wake_up(m1, max_prio_entry(m1.waitqueue[r], m1.prio))
             ELSE Ret(m1, TRUE, NULL)

\* Variant of pcp_release that restores prio before the owner assertion.
pcp_release_resets_first(m, r, po) ==
    LET m0 == [m EXCEPT !.prio[m.current] = po[m.current]]
    IN  IF m0.owner[r] # m0.current THEN Ret(m0, FALSE, NULL)
        ELSE LET m1 == [m0 EXCEPT !.owner[r] = NULL]
             IN  IF ~list_empty(m1.waitqueue[r])
                 THEN wake_up(m1, max_prio_entry(m1.waitqueue[r], m1.prio))
                 ELSE Ret(m1, TRUE, NULL)

\* prio_orig of the releasing process is passed in: po is process -> base prio.
pcp_release(m, r, po) ==
    IF m.owner[r] # m.current THEN Ret(m, FALSE, NULL)
    ELSE LET m1 == [m EXCEPT !.prio[m.current] = po[m.current],
                             !.owner[r] = NULL]
         IN  IF ~list_empty(m1.waitqueue[r])
             THEN wake_up(m1, max_prio_entry(m1.waitqueue[r], m1.prio))
             ELSE Ret(m1, TRUE, NULL)

\* --------------------------------------------------------------- schedule
\* ag, ls, po: process -> age, lifespan, prio_orig.
\* if (!current || current->status == PROCESS_BLOCKED) goto pick_next;
must_pick(m) == m.current = NULL \/ m.status[m.current] = "BLOCKED"

\* current->age < current->lifespan
has_remaining(m, ag, ls) == ag[m.current] < ls[m.current]

\* pick_next of fcfs_schedule and rr_schedule: the first entry.
pick_first(m) ==
    IF ~list_empty(m.readyqueue)
    THEN LET next == list_first_entry(m.readyqueue)
         IN  Ret(list_del_init(m, next), TRUE, next)
    ELSE Ret(m, TRUE, NULL)

fcfs_schedule(m, ag, ls) ==
    IF must_pick(m) THEN pick_first(m)
    ELSE IF has_remaining(m, ag, ls) THEN Ret(m, TRUE, m.current)
    ELSE pick_first(m)

\* pick_next of sjf_schedule and stcf_schedule: the smallest lifespan.
pick_shortest(m, ls) ==
    IF ~list_empty(m.readyqueue)
    THEN LET next == min_lifespan_entry(m.readyqueue, ls)
         IN  Ret(list_del_init(m, next), TRUE, next)
    ELSE Ret(m, TRUE, NULL)

\* Variant of sjf_schedule that puts a process with remaining lifetime back
\* at the tail of the ready queue and picks again.
sjf_schedule_requeues(m, ag, ls) ==
    IF must_pick(m) THEN pick_shortest(m, ls)
    ELSE IF has_remaining(m, ag, ls)
         THEN pick_shortest(list_add_tail_ready(m, m.current), ls)
         ELSE pick_shortest(m, ls)

sjf_schedule(m, ag, ls) ==
    IF must_pick(m) THEN pick_shortest(m, ls)
    ELSE IF has_remaining(m, ag, ls) THEN Ret(m, TRUE, m.current)
    ELSE pick_shortest(m, ls)

\* Variant of stcf_shorter with >= for >.
stcf_shorter_or_equal(m, ag, ls, tmp) ==
    (ls[m.current] - ag[m.current]) >= (ls[tmp] - ag[tmp])

\* (current->lifespan - current->age) > (tmp->lifespan - tmp->age)
stcf_shorter(m, ag, ls, tmp) ==
    (ls[m.current] - ag[m.current]) > (ls[tmp] - ag[tmp])

\* Variant of stcf_preempt that forgets list_del_init(&next->list).
stcf_preempt_keeps_next(m, tmp) ==
    LET m1 == [m EXCEPT !.status[tmp] = "READY"]
        m2 == list_add_ready(m1, m.current)
        m3 == [m2 EXCEPT !.status[m.current] = "BLOCKED"]
    IN  [m3 EXCEPT !.current = tmp]

\* Body of the if inside the loop of stcf_schedule: tmp takes over.
stcf_preempt(m, tmp) ==
    LET m1 == [m EXCEPT !.status[tmp] = "READY"]
        m2 == list_add_ready(m1, m.current)
        m3 == [m2 EXCEPT !.status[m.current] = "BLOCKED"]
        m4 == [m3 EXCEPT !.current = tmp]
    IN  list_del_init(m4, tmp)

\* list_for_each_entry(tmp, &readyqueue, list) with break on the first hit;
\* i is the cursor.
RECURSIVE stcf_scan(_, _, _, _)
stcf_scan(m, ag, ls, i) ==
    IF i > Len(m.readyqueue) THEN m
    ELSE IF stcf_shorter(m, ag, ls, m.readyqueue[i])
         THEN stcf_preempt(m, m.readyqueue[i])
         ELSE stcf_scan(m, ag, ls, i + 1)

stcf_schedule(m, ag, ls) ==
    IF must_pick(m) THEN pick_shortest(m, ls)
    ELSE IF has_remaining(m, ag, ls)
         THEN LET m1 == stcf_scan(m, ag, ls, 1) IN Ret(m1, TRUE, m1.current)
         ELSE pick_shortest(m, ls)

\* Variant of rr_schedule: the running process is requeued with list_add.
rr_schedule_requeues_at_head(m, ag, ls) ==
    IF must_pick(m) THEN pick_first(m)
    ELSE IF has_remaining(m, ag, ls)
         THEN pick_first(list_add_ready(m, m.current))
         ELSE pick_first(m)

rr_schedule(m, ag, ls) ==
    IF must_pick(m) THEN pick_first(m)
    ELSE IF has_remaining(m, ag, ls)
         THEN pick_first(list_move_tail_ready(m, m.current))
         ELSE pick_first(m)

\* pick_next of prio_schedule and pcp_schedule: the highest prio.
pick_highest(m) ==
    IF ~list_empty(m.readyqueue)
    THEN LET next == max_prio_entry(m.readyqueue, m.prio)
         IN  Ret(list_del_init(m, next), TRUE, next)
    ELSE Ret(m, TRUE, NULL)

\* The loop of prio_schedule looks at the first entry only: an entry other
\* than current puts current back at the head and jumps to pick_next.  When
\* the first entry is current itself, list_del_init leaves the cursor on a
\* self-linked node and the loop never ends: prio_spins.
prio_spins(m, ag, ls) ==
    /\ ~must_pick(m)
    /\ has_remaining(m, ag, ls)
    /\ ~list_empty(m.readyqueue)
    /\ list_first_entry(m.readyqueue) = m.current

\* Variant of prio_schedule: the running process is requeued at the tail.
prio_schedule_requeues_at_tail(m, ag, ls) ==
    IF must_pick(m) THEN pick_highest(m)
    ELSE IF has_remaining(m, ag, ls)
         THEN IF list_empty(m.readyqueue) THEN Ret(m, TRUE, m.current)
              ELSE pick_highest(list_add_tail_ready(m, m.current))
         ELSE pick_highest(m)

prio_schedule(m, ag, ls) ==
    IF must_pick(m) THEN pick_highest(m)
    ELSE IF has_remaining(m, ag, ls)
         THEN IF list_empty(m.readyqueue) THEN Ret(m, TRUE, m.current)
              ELSE pick_highest(list_add_ready(m, m.current))
         ELSE pick_highest(m)

\* tmp->prio++ for every entry of the ready queue.
pa_age_ready(m) ==
    [m EXCEPT !.prio = [p \in DOMAIN @ |->
        IF \E i \in 1..Len(m.readyqueue) : m.readyqueue[i] = p
        THEN @[p] + 1 ELSE @[p]]]

\* pick_next of pa_schedule: the highest prio, reset to prio_orig.
pa_pick(m, po) ==
    IF ~list_empty(m.readyqueue)
    THEN LET next == max_prio_entry(m.readyqueue, m.prio)
         IN  Ret(list_del_init([m EXCEPT !.prio[next] = po[next]], next),
                 TRUE, next)
    ELSE Ret(m, TRUE, NULL)

pa_schedule(m, ag, ls, po) ==
    IF must_pick(m) THEN pa_pick(m, po)
    ELSE LET m1 == pa_age_ready(m)
         IN  IF has_remaining(m1, ag, ls)
             THEN pa_pick(list_move_tail_ready(m1, m1.current), po)
             ELSE pa_pick(m1, po)

\* Variant of pcp_schedule that does not requeue the running process.
pcp_schedule_drops_current(m, ag, ls) ==
    pick_highest(m)

pcp_schedule(m, ag, ls) ==
    IF must_pick(m) THEN pick_highest(m)
    ELSE IF has_remaining(m, ag, ls)
         THEN pick_highest(list_move_tail_ready(m, m.current))
         ELSE pick_highest(m)

\* ------------------------------------------------- the simulation's tick loop
Init ==
    /\ policy \in Policies
    /\ lifespan \in [Procs -> Lifespans(policy)]
    /\ prio_orig \in [Procs -> BasePrios(policy)]
    /\ status = [p \in Procs |-> "NONE"]
    /\ age = [p \in Procs |-> 0]
    /\ prio = prio_orig
    /\ current = NULL
    /\ readyqueue = <<>>
    /\ waitqueue = [r \in Resources |-> <<>>]
    /\ owner = [r \in Resources |-> NULL]
    /\ pc = "sched"
    /\ call = NoCall
    /\ want = [p \in Procs |-> NoRes]

\* Write back what a callback left behind.
Store(m) ==
    /\ status' = m.status
    /\ prio' = m.prio
    /\ readyqueue' = m.readyqueue
    /\ waitqueue' = m.waitqueue
    /\ owner' = m.owner

\* A process is created: pids are handed out in order of arrival, the new
\* process is READY at the tail of the ready queue.
Fork ==
    /\ pc = "sched"
    /\ \E p \in Procs :
        /\ status[p] = "NONE"
        /\ \A q \in Procs : q < p => status[q] # "NONE"
        /\ status' = [status EXCEPT ![p] = "READY"]
        /\ readyqueue' = Append(readyqueue, p)
    /\ call' = NoCall
    /\ UNCHANGED <<policy, lifespan, prio_orig, want, age, prio, current, waitqueue,
                   owner, pc>>

\* What the framework does with the process schedule() returned: the
\* previous one goes from RUNNING to READY and is retired when it has run
\* its lifespan; the returned one becomes current and RUNNING.
Dispatch(res) ==
    LET prev == current
        st0 == res.m.status
        st1 == IF prev # NULL /\ st0[prev] = "RUNNING"
               THEN [st0 EXCEPT ![prev] = "READY"] ELSE st0
        st2 == IF prev # NULL /\ age[prev] = lifespan[prev]
               THEN [st1 EXCEPT ![prev] = "EXITED"] ELSE st1
        st3 == IF res.proc # NULL
               THEN [st2 EXCEPT ![res.proc] = "RUNNING"] ELSE st2
    IN  /\ Store([res.m EXCEPT !.status = st3])
        /\ current' = res.proc
        /\ pc' = IF res.proc = NULL THEN "sched" ELSE "acq"
        /\ call' = [fn |-> "schedule", rid |-> NoRes, ok |-> TRUE,
                    proc |-> res.proc]
        /\ UNCHANGED <<policy, lifespan, prio_orig, want, age>>

FcfsSchedule ==
    /\ pc = "sched" /\ policy = "FCFS"
    /\ Dispatch(fcfs_schedule(Machine, age, lifespan))

SjfSchedule ==
    /\ pc = "sched" /\ policy = "SJF"
    /\ Dispatch(sjf_schedule(Machine, age, lifespan))

StcfSchedule ==
    /\ pc = "sched" /\ policy = "STCF"
    /\ Dispatch(stcf_schedule(Machine, age, lifespan))

RrSchedule ==
    /\ pc = "sched" /\ policy = "RR"
    /\ Dispatch(rr_schedule(Machine, age, lifespan))

PrioSchedule ==
    /\ pc = "sched" /\ policy = "PRIO"
    /\ ~prio_spins(Machine, age, lifespan)
    /\ Dispatch(prio_schedule(Machine, age, lifespan))

PaSchedule ==
    /\ pc = "sched" /\ policy = "PA"
    /\ Dispatch(pa_schedule(Machine, age, lifespan, prio_orig))

PcpSchedule ==
    /\ pc = "sched" /\ policy = "PCP"
    /\ Dispatch(pcp_schedule(Machine, age, lifespan))

\* The running process asks for resource r.  A refused request ends the
\* tick: the framework calls schedule() next.
Request(res, r) ==
    /\ Store(res.m)
    /\ pc' = IF res.ok THEN "acq" ELSE "sched"
    /\ call' = [fn |-> "acquire", rid |-> r, ok |-> res.ok, proc |-> NULL]
    /\ UNCHANGED <<policy, lifespan, prio_orig, want, age, current>>

FcfsAcquire(r) ==
    /\ pc = "acq" /\ policy \in {"FCFS", "SJF", "STCF", "RR"}
    /\ Request(fcfs_acquire(Machine, r), r)

PrioAcquire(r) ==
    /\ pc = "acq" /\ policy = "PRIO"
    /\ Request(prio_acquire(Machine, r), r)

PaAcquire(r) ==
    /\ pc = "acq" /\ policy = "PA"
    /\ Request(pa_acquire(Machine, r), r)

PcpAcquire(r) ==
    /\ pc = "acq" /\ policy = "PCP"
    /\ Request(pcp_acquire(Machine, r), r)

\* The running process got what it asked for and runs for this tick.
Run ==
    /\ pc = "acq"
    /\ age' = [age EXCEPT ![current] = @ + 1]
    /\ pc' = "rel"
    /\ call' = NoCall
    /\ UNCHANGED <<policy, lifespan, prio_orig, want, status, prio, current,
                   readyqueue, waitqueue, owner>>

\* The running process gives back resource r, which it holds.  A failed
\* assertion of the callback stops the simulation.
Return(res, r) ==
    /\ owner[r] = current
    /\ Store(res.m)
    /\ pc' = IF res.ok THEN "rel" ELSE "abort"
    /\ call' = [fn |-> "release", rid |-> r, ok |-> res.ok, proc |-> NULL]
    /\ UNCHANGED <<policy, lifespan, prio_orig, want, age, current>>

FcfsRelease(r) ==
    /\ pc = "rel" /\ policy \in {"FCFS", "SJF", "STCF", "RR"}
    /\ Return(fcfs_release(Machine, r), r)

PrioRelease(r) ==
    /\ pc = "rel" /\ policy = "PRIO"
    /\ Return(prio_release(Machine, r), r)

PaRelease(r) ==
    /\ pc = "rel" /\ policy = "PA"
    /\ Return(pa_release(Machine, r), r)

PcpRelease(r) ==
    /\ pc = "rel" /\ policy = "PCP"
    /\ Return(pcp_release(Machine, r, prio_orig), r)

\* The tick is over.  A process that has run its lifespan has given back
\* everything it held.
EndTick ==
    /\ pc = "rel"
    /\ age[current] = lifespan[current] => \A r \in Resources : owner[r] # current
    /\ pc' = "sched"
    /\ call' = NoCall
    /\ UNCHANGED <<policy, lifespan, prio_orig, want, status, age, prio, current,
                   readyqueue, waitqueue, owner>>

Next ==
    \/ Fork
    \/ FcfsSchedule
    \/ SjfSchedule
    \/ StcfSchedule
    \/ RrSchedule
    \/ PrioSchedule
    \/ PaSchedule
    \/ PcpSchedule
    \/ \E r \in Resources : FcfsAcquire(r)
    \/ \E r \in Resources : PrioAcquire(r)
    \/ \E r \in Resources : PaAcquire(r)
    \/ \E r \in Resources : PcpAcquire(r)
    \/ Run
    \/ \E r \in Resources : FcfsRelease(r)
    \/ \E r \in Resources : PrioRelease(r)
    \/ \E r \in Resources : PaRelease(r)
    \/ \E r \in Resources : PcpRelease(r)
    \/ EndTick

Spec == Init /\ [][Next]_vars

TypeOK ==
    /\ policy \in Policies
    /\ status \in [Procs -> {"NONE", "READY", "RUNNING", "BLOCKED", "EXITED"}]
    /\ current \in Procs \cup {NULL}
    /\ owner \in [Resources -> Procs \cup {NULL}]
    /\ pc \in {"sched", "acq", "rel", "abort"}
    /\ \A p \in Procs : age[p] \in 0..lifespan[p]
    /\ want \in [Procs -> Resources \cup {NoRes}]
    /\ \A p \in Procs : prio[p] \in 0..(MAX_PRIO + 4 * NProc * MaxLife)

\* ------------------------------------------------------------- vocabulary
Live(p) == status[p] \in {"READY", "RUNNING", "BLOCKED"}

\* Positions of p in a queue, and in all the wait queues of wq.
Slots(q, p) == {i \in 1..Len(q) : q[i] = p}

WaitSlots(wq, p) == {x \in Resources \X (1..NProc + 1) :
                        x[2] \in Slots(wq[x[1]], p)}

InQueue(q, p) == Slots(q, p) # {}

InWait(wq, p) == \E r \in Resources : InQueue(wq[r], p)

\* p occupies the running slot.
Runs(p) == current = p /\ status[p] = "RUNNING"

Places(p) ==
    (IF Runs(p) THEN 1 ELSE 0)
    + Cardinality(Slots(readyqueue, p))
    + Cardinality(WaitSlots(waitqueue, p))

Holds(p) == {r \in Resources : owner[r] = p}

\* q without its i-th entry.
DropAt(q, i) == SubSeq(q, 1, i - 1) \o SubSeq(q, i + 1, Len(q))

\* The steps that are a call of schedule / acquire / release.
ScheduleStep == call'.fn = "schedule" /\ pc = "sched"
AcquireStep == call'.fn = "acquire" /\ pc = "acq"
ReleaseStep == call'.fn = "release" /\ pc = "rel"

\* ------------------------------------------------------------------ claims
\* C1 - queue partition: every live process is in exactly one place, the
\* running slot, the ready queue (once) or one wait queue (once).
QueuePartition == \A p \in Procs : Live(p) => Places(p) = 1

\* C1 witness: under Priority, after a schedule call, one process runs, one
\* is ready and one waits for a resource.
QueuePartitionWitness ==
    /\ policy = "PRIO" /\ call.fn = "schedule" /\ current # NULL
    /\ \E p, q \in Procs :
        /\ p # q /\ p # current /\ q # current
        /\ InQueue(readyqueue, p)
        /\ InWait(waitqueue, q)

\* C2 as stated - resource exclusivity: an owner is never BLOCKED and never
\* in a wait queue.
ResourceExclusivity ==
    \A r \in Resources :
        /\ owner[r] \in Procs \cup {NULL}
        /\ owner[r] # NULL =>
            /\ status[owner[r]] # "BLOCKED"
            /\ ~InWait(waitqueue, owner[r])

\* C2 amended - a resource has no owner or one process; a process becomes
\* owner only of a free resource and only as the running process, RUNNING
\* and in no wait queue; an owner enters a wait queue only by its own
\* refused acquire.
OwnerGrantedToRunning ==
    [][\A r \in Resources :
        /\ owner'[r] \in Procs \cup {NULL}
        /\ (owner'[r] # owner[r] /\ owner'[r] # NULL) =>
            /\ owner[r] = NULL
            /\ AcquireStep /\ call'.ok
            /\ owner'[r] = current'
            /\ status'[current'] = "RUNNING"
            /\ ~InWait(waitqueue', current')
        /\ (owner'[r] # NULL /\ InWait(waitqueue', owner'[r])
                /\ ~(owner[r] = owner'[r] /\ InWait(waitqueue, owner[r]))) =>
            /\ AcquireStep /\ ~call'.ok
            /\ owner'[r] = current /\ owner[r] = current
            /\ Cardinality(WaitSlots(waitqueue', current)) = 1
      ]_vars

\* C2 witness: a process that holds one resource is waiting for another one,
\* held by another process.
HoldAndWaitWitness ==
    \E r1, r2 \in Resources :
        /\ r1 # r2
        /\ owner[r1] # NULL /\ owner[r2] # NULL /\ owner[r1] # owner[r2]
        /\ InQueue(waitqueue[r2], owner[r1])
        /\ status[owner[r1]] = "BLOCKED"

\* C3 as stated - a process is BLOCKED exactly when it is in one wait queue,
\* and no process of the ready queue is BLOCKED.
StatusQueueConsistency ==
    \A p \in Procs :
        /\ status[p] = "BLOCKED" <=> Cardinality(WaitSlots(waitqueue, p)) = 1
        /\ InQueue(readyqueue, p) => status[p] # "BLOCKED"

\* C4 - mutual exclusion: at most one process is RUNNING, and it is the one
\* the last schedule call returned.
MutualExclusion ==
    /\ Cardinality({p \in Procs : status[p] = "RUNNING"}) <= 1
    /\ \A p \in Procs : status[p] = "RUNNING" => p = current

\* C4 witness: round-robin has just replaced a process that ran before by
\* another one.
MutualExclusionWitness ==
    /\ policy = "RR" /\ call.fn = "schedule"
    /\ current # NULL /\ status[current] = "RUNNING"
    /\ \E p \in Procs :
        p # current /\ age[p] > 0 /\ InQueue(readyqueue, p) /\ status[p] = "READY"

\* C5 - acquire(r): a free resource goes to the requester, the call returns
\* true and no queue or status changes; a resource owned by another process
\* keeps its owner, the requester becomes BLOCKED at the tail of r's wait
\* queue, the ready queue is unchanged and the call returns false.
AcquireContract ==
    [][AcquireStep =>
        LET r == call'.rid
        IN  /\ owner[r] = NULL =>
                /\ call'.ok
                /\ owner' = [owner EXCEPT ![r] = current]
                /\ UNCHANGED <<readyqueue, waitqueue, status>>
            /\ (owner[r] # NULL /\ owner[r] # current) =>
                /\ ~call'.ok
                /\ owner' = owner
                /\ status' = [status EXCEPT ![current] = "BLOCKED"]
                /\ waitqueue' = [waitqueue EXCEPT ![r] = Append(@, current)]
                /\ readyqueue' = readyqueue
      ]_vars

\* C5 witness: under PCP a request was refused and the requester stands
\* behind an earlier waiter.
AcquireContractWitness ==
    /\ policy = "PCP" /\ call.fn = "acquire" /\ ~call.ok
    /\ owner[call.rid] # current
    /\ Len(waitqueue[call.rid]) = 2
    /\ waitqueue[call.rid][2] = current

FifoPolicies == {"FCFS", "SJF", "STCF", "RR"}

\* C6 - FIFO wake under FCFS, SJF, STCF and RR: release(r) with waiters
\* clears the owner, moves the head of r's wait queue, READY, to the tail of
\* the ready queue and touches nothing else; a wait queue only ever changes
\* by an append of the requester or by the removal of its head, so waiters
\* are woken in the order in which they blocked.
FifoWake ==
    [][(policy \in FifoPolicies) =>
        /\ (ReleaseStep /\ waitqueue[call'.rid] # <<>>) =>
            LET r == call'.rid
                w == Head(waitqueue[r])
            IN  /\ owner' = [owner EXCEPT ![r] = NULL]
                /\ waitqueue' = [waitqueue EXCEPT ![r] = Tail(@)]
                /\ status' = [status EXCEPT ![w] = "READY"]
                /\ readyqueue' = Append(readyqueue, w)
        /\ \A r \in Resources :
            waitqueue'[r] # waitqueue[r] =>
                \/ AcquireStep /\ waitqueue'[r] = Append(waitqueue[r], current)
                \/ ReleaseStep /\ waitqueue'[r] = Tail(waitqueue[r])
      ]_vars

\* C6 witness: a release woke one of two waiters; the other one still waits.
FifoWakeWitness ==
    /\ policy \in FifoPolicies /\ call.fn = "release"
    /\ owner[call.rid] = NULL
    /\ Len(waitqueue[call.rid]) = 1
    /\ readyqueue # <<>>
    /\ status[readyqueue[Len(readyqueue)]] = "READY"

PrioPolicies == {"PRIO", "PA", "PCP"}

\* C7 - priority wake under Priority, Priority+Aging and PCP: release(r)
\* with waiters wakes the waiter of maximal prio, the earliest of those;
\* it becomes READY at the tail of the ready queue and the other waiters
\* keep their order.
PriorityWake ==
    [][(policy \in PrioPolicies /\ ReleaseStep /\ waitqueue[call'.rid] # <<>>) =>
        LET r == call'.rid
            q == waitqueue[r]
        IN  \E i \in 1..Len(q) :
                /\ \A j \in 1..Len(q) : prio[q[j]] <= prio[q[i]]
                /\ \A j \in 1..(i - 1) : prio[q[j]] < prio[q[i]]
                /\ waitqueue' = [waitqueue EXCEPT ![r] = DropAt(q, i)]
                /\ status' = [status EXCEPT ![q[i]] = "READY"]
                /\ readyqueue' = Append(readyqueue, q[i])
      ]_vars

\* C7 witness: under Priority a release woke a waiter of higher prio than
\* the one left at the head of the wait queue.
PriorityWakeWitness ==
    /\ policy = "PRIO" /\ call.fn = "release"
    /\ waitqueue[call.rid] # <<>> /\ readyqueue # <<>>
    /\ status[readyqueue[Len(readyqueue)]] = "READY"
    /\ prio[readyqueue[Len(readyqueue)]] > prio[Head(waitqueue[call.rid])]

\* C8 - release(r) with an empty wait queue clears r's owner and leaves the
\* ready queue, the wait queues, the other owners and every status alone.
ReleaseEmpty ==
    [][(ReleaseStep /\ waitqueue[call'.rid] = <<>>) =>
        /\ owner' = [owner EXCEPT ![call'.rid] = NULL]
        /\ UNCHANGED <<readyqueue, waitqueue, status>>
      ]_vars

\* C8 witness: under Priority+Aging a process released one of the two
\* resources it held while nobody waited.
ReleaseEmptyWitness ==
    /\ policy = "PA" /\ call.fn = "release"
    /\ owner[call.rid] = NULL
    /\ readyqueue = <<>> /\ \A r \in Resources : waitqueue[r] = <<>>
    /\ Holds(current) # {}

\* C9 - non-preemption under FCFS and SJF: a schedule call with a current
\* process that is not BLOCKED and has age < lifespan returns it and leaves
\* the ready queue unchanged.
NonPreemption ==
    [][(ScheduleStep /\ policy \in {"FCFS", "SJF"}
            /\ current # NULL /\ status[current] # "BLOCKED"
            /\ age[current] < lifespan[current]) =>
        /\ call'.proc = current
        /\ current' = current
        /\ readyqueue' = readyqueue
      ]_vars

\* C9 witness: under SJF the running process was kept although a job shorter
\* than its remaining time is ready.
NonPreemptionWitness ==
    /\ policy = "SJF" /\ call.fn = "schedule" /\ current # NULL
    /\ age[current] > 0 /\ age[current] < lifespan[current]
    /\ \A r \in Resources : owner[r] = NULL /\ waitqueue[r] = <<>>
    /\ \E p \in Procs :
        /\ InQueue(readyqueue, p) /\ age[p] = 0
        /\ lifespan[p] < lifespan[current] - age[current]

\* schedule has to pick a new process.
FreshPick ==
    \/ current = NULL
    \/ status[current] = "BLOCKED"
    \/ age[current] = lifespan[current]

\* C10 - fresh pick: SJF returns the ready process of smallest lifespan,
\* the nearest to the head among equals, removes only it and keeps the
\* order of the others; FCFS returns the head.
SjfSelection ==
    [][(ScheduleStep /\ FreshPick /\ readyqueue # <<>>) =>
        LET q == readyqueue
            next == call'.proc
        IN  /\ policy = "SJF" =>
                \E i \in 1..Len(q) :
                    /\ q[i] = next
                    /\ \A j \in 1..Len(q) : lifespan[q[j]] >= lifespan[next]
                    /\ \A j \in 1..(i - 1) : lifespan[q[j]] > lifespan[next]
                    /\ readyqueue' = DropAt(q, i)
            /\ policy = "FCFS" => next = Head(q) /\ readyqueue' = Tail(q)
      ]_vars

\* C10 witness: from the ready queue <<1, 2, 3>> with lifespans 3, 1, 1 SJF
\* picked process 2, the first of the two shortest.
SjfSelectionWitness ==
    /\ policy = "SJF" /\ call.fn = "schedule"
    /\ lifespan = <<3, 1, 1>> /\ age = <<0, 0, 0>>
    /\ current = 2 /\ readyqueue = <<1, 3>>

\* Remaining time of p.
Remaining(p) == lifespan[p] - age[p]

\* schedule is called with a current process that goes on unless preempted.
Continuing ==
    current # NULL /\ status[current] # "BLOCKED" /\ age[current] < lifespan[current]

\* C11 - STCF preemption condition: with a continuing current process,
\* stcf_schedule returns another process exactly when some ready process has
\* strictly less remaining time; otherwise it returns current and leaves the
\* ready queue unchanged.
StcfPreemptCondition ==
    [][(ScheduleStep /\ policy = "STCF" /\ Continuing) =>
        LET shorter == \E i \in 1..Len(readyqueue) :
                           Remaining(readyqueue[i]) < Remaining(current)
        IN  /\ shorter <=> call'.proc # current
            /\ ~shorter => call'.proc = current /\ readyqueue' = readyqueue
      ]_vars

\* C11 witness: the running process was kept although a fresh process with
\* the same remaining time is ready.
StcfPreemptConditionWitness ==
    /\ policy = "STCF" /\ call.fn = "schedule" /\ current # NULL
    /\ age[current] > 0 /\ age[current] < lifespan[current]
    /\ \A r \in Resources : owner[r] = NULL /\ waitqueue[r] = <<>>
    /\ \A q \in Procs \ {current} : age[q] = 0
    /\ \E p \in Procs :
        InQueue(readyqueue, p) /\ Remaining(p) = Remaining(current)

\* C12 as stated - STCF preemption effect: the preempted process becomes
\* READY at the tail of the ready queue; the first ready process with
\* strictly less remaining time leaves the ready queue and is returned.
StcfPreemptEffect ==
    [][(ScheduleStep /\ policy = "STCF" /\ Continuing) =>
        \A i \in 1..Len(readyqueue) :
            (/\ Remaining(readyqueue[i]) < Remaining(current)
             /\ \A j \in 1..(i - 1) :
                    Remaining(readyqueue[j]) >= Remaining(current)) =>
                /\ call'.proc = readyqueue[i]
                /\ status'[current] = "READY"
                /\ readyqueue' = Append(DropAt(readyqueue, i), current)
      ]_vars

\* Round robin on its own: every process has arrived, in pid order, before
\* the first tick, and no process asks for a resource.
InitRR ==
    /\ policy = "RR"
    /\ lifespan \in [Procs -> 1..MaxLife]
    /\ prio_orig = [p \in Procs |-> 0]
    /\ status = [p \in Procs |-> "READY"]
    /\ age = [p \in Procs |-> 0]
    /\ prio = prio_orig
    /\ current = NULL
    /\ readyqueue = [i \in 1..NProc |-> i]
    /\ waitqueue = [r \in Resources |-> <<>>]
    /\ owner = [r \in Resources |-> NULL]
    /\ pc = "sched"
    /\ call = NoCall
    /\ want = [p \in Procs |-> NoRes]

NextRR ==
    \/ RrSchedule
    \/ Run
    \/ EndTick

SpecRR == InitRR /\ [][NextRR]_vars

RECURSIVE TicksRun(_)
\* Ticks run so far by processes 1..n.
TicksRun(n) == IF n = 0 THEN 0 ELSE age[n] + TicksRun(n - 1)

\* C13 - RR quantum: without resource requests and late arrivals every
\* rr_schedule call with an unfinished running process appends it to the
\* tail of the ready queue and returns the head, no process is returned on
\* two consecutive ticks while another is ready, and processes of one common
\* lifespan run in the cycle P1, P2, .., Pn, P1, P2, ..
RrQuantum ==
    /\ [][(ScheduleStep /\ policy = "RR" /\ current # NULL) =>
            /\ Continuing =>
                 /\ call'.proc = Head(Append(readyqueue, current))
                 /\ readyqueue' = Tail(Append(readyqueue, current))
            /\ readyqueue # <<>> => call'.proc # current
         ]_vars
    /\ []((/\ policy = "RR" /\ call.fn = "schedule" /\ current # NULL
           /\ \A p \in Procs : lifespan[p] = lifespan[1]) =>
            current = (TicksRun(NProc) % NProc) + 1)

\* C13 witness: after one full round of a common lifespan above one, P1 is
\* returned for its second tick.
RrQuantumWitness ==
    /\ policy = "RR" /\ call.fn = "schedule" /\ current = 1
    /\ \A p \in Procs : lifespan[p] = lifespan[1] /\ lifespan[p] > 1 /\ age[p] = 1

\* C14 as stated - aging under PA: on every pa_schedule call, whatever the
\* state of the previously running process, each process of the ready queue
\* that is not selected gains exactly one prio, and the selected process has
\* prio = prio_orig on return.
AgingEveryTick ==
    [][(ScheduleStep /\ policy = "PA") =>
        /\ \A p \in Procs :
              (InQueue(readyqueue, p) /\ p # call'.proc) => prio'[p] = prio[p] + 1
        /\ call'.proc # NULL => prio'[call'.proc] = prio_orig[call'.proc]
      ]_vars

\* C15 - PCP ceiling at call boundaries: a pcp_acquire that returns true
\* leaves the new owner at MAX_PRIO, a pcp_release leaves the releasing
\* process at prio_orig, and a refused pcp_acquire changes no prio.
PcpCallBoundaries ==
    [][(policy = "PCP") =>
        /\ (AcquireStep /\ call'.ok) =>
              owner'[call'.rid] = current /\ prio'[current] = MAX_PRIO
        /\ (AcquireStep /\ ~call'.ok) => prio' = prio
        /\ ReleaseStep => prio'[current] = prio_orig[current]
      ]_vars

\* C15 witness: a process at the ceiling has given back one of its two
\* resources and is at its base prio.
PcpCallBoundariesWitness ==
    /\ policy = "PCP" /\ call.fn = "release" /\ call.ok
    /\ prio[current] = prio_orig[current]
    /\ Holds(current) # {}

\* C16 as stated - PCP ceiling for the duration of ownership: every process
\* that owns a resource has prio = MAX_PRIO.
PcpCeilingHeld ==
    policy = "PCP" =>
        \A r \in Resources : owner[r] # NULL => prio[owner[r]] = MAX_PRIO

\* C17 - work conservation, every policy: schedule returns no process
\* exactly when the ready queue is empty and the current process is absent,
\* BLOCKED or has run its lifespan; a returned process is not in the ready
\* queue on return.
WorkConservation ==
    [][ScheduleStep =>
        /\ call'.proc = NULL <=> (readyqueue = <<>> /\ ~Continuing)
        /\ call'.proc # NULL => ~InQueue(readyqueue', call'.proc)
      ]_vars

\* C17 witness: an unfinished process ran, nothing else was ready, and
\* schedule returned it again with the ready queue empty.
WorkConservationWitness ==
    /\ call.fn = "schedule" /\ current # NULL /\ call.proc = current
    /\ age[current] > 0 /\ age[current] < lifespan[current]
    /\ readyqueue = <<>>
    /\ \A q \in Procs \ {current} : status[q] = "NONE"

\* C19 - priority selection under PRIO: the returned process has prio at
\* least that of every process left in the ready queue; an unfinished
\* running process gives way only to strictly greater prio and is returned
\* again on a tie; a fresh pick takes, among the highest prio, the entry
\* nearest the head.
PrioSelection ==
    [][(ScheduleStep /\ policy = "PRIO" /\ call'.proc # NULL) =>
        /\ \A i \in 1..Len(readyqueue') :
              prio[call'.proc] >= prio[readyqueue'[i]]
        /\ Continuing =>
              /\ call'.proc # current => prio[call'.proc] > prio[current]
              /\ (\A i \in 1..Len(readyqueue) :
                      prio[readyqueue[i]] <= prio[current]) =>
                    call'.proc = current /\ readyqueue' = readyqueue
        /\ ~Continuing =>
              \E i \in 1..Len(readyqueue) :
                  /\ call'.proc = readyqueue[i]
                  /\ \A j \in 1..(i - 1) : prio[readyqueue[j]] < prio[readyqueue[i]]
                  /\ readyqueue' = DropAt(readyqueue, i)
      ]_vars

\* C19 witness: the only process that has run so far is returned again while
\* a process of the same prio is ready.
PrioSelectionWitness ==
    /\ policy = "PRIO" /\ call.fn = "schedule" /\ current # NULL
    /\ age[current] > 0 /\ age[current] < lifespan[current]
    /\ \A q \in Procs \ {current} : age[q] = 0
    /\ \E p \in Procs : InQueue(readyqueue, p) /\ prio[p] = prio[current]

\* sched->release of the selected policy.
release(pol, m, r, po) ==
    IF pol \in {"FCFS", "SJF", "STCF", "RR"} THEN fcfs_release(m, r)
    ELSE IF pol = "PRIO" THEN prio_release(m, r)
    ELSE IF pol = "PA" THEN pa_release(m, r)
    ELSE pcp_release(m, r, po)

\* A driver outside its contract: the running process gives back a resource
\* it does not own.
StrayRelease(r) ==
    /\ pc = "rel" /\ owner[r] # current
    /\ LET res == release(policy, Machine, r, prio_orig)
       IN  /\ Store(res.m)
           /\ pc' = IF res.ok THEN "rel" ELSE "abort"
           /\ call' = [fn |-> "release", rid |-> r, ok |-> res.ok, proc |-> NULL]
    /\ UNCHANGED <<policy, lifespan, prio_orig, want, age, current>>

NextMisuse ==
    \/ Next
    \/ \E r \in Resources : StrayRelease(r)

SpecMisuse == Init /\ [][NextMisuse]_vars

\* C18 - release assertions: a release by the owner passes both assertions
\* (owner is current, the woken waiter is BLOCKED); a release by a process
\* that is not the owner fails the owner assertion with owner, ready queue,
\* wait queues, status and prio all as they were.
ReleaseAssertions ==
    [][ReleaseStep =>
        /\ owner[call'.rid] = current => call'.ok /\ pc' # "abort"
        /\ owner[call'.rid] # current =>
              /\ ~call'.ok /\ pc' = "abort"
              /\ owner' = owner /\ readyqueue' = readyqueue
              /\ waitqueue' = waitqueue /\ status' = status /\ prio' = prio
      ]_vars

\* C18 witness: the simulation stopped at a release, by a process at the
\* ceiling, of a resource another process owns and a third waits for.
ReleaseAssertionsWitness ==
    /\ pc = "abort" /\ call.fn = "release" /\ ~call.ok
    /\ policy = "PCP" /\ prio[current] # prio_orig[current]
    /\ owner[call.rid] \notin {NULL, current}
    /\ waitqueue[call.rid] # <<>>

\* STCF on its own with longer jobs: processes arrive at any tick, in
\* pid order, and none asks for a resource.
InitStcf ==
    /\ policy = "STCF"
    /\ lifespan \in [Procs -> 1..MaxLifeStcf]
    /\ prio_orig = [p \in Procs |-> 0]
    /\ status = [p \in Procs |-> "NONE"]
    /\ age = [p \in Procs |-> 0]
    /\ prio = prio_orig
    /\ current = NULL
    /\ readyqueue = <<>>
    /\ waitqueue = [r \in Resources |-> <<>>]
    /\ owner = [r \in Resources |-> NULL]
    /\ pc = "sched"
    /\ call = NoCall
    /\ want = [p \in Procs |-> NoRes]

NextStcf ==
    \/ Fork
    \/ StcfSchedule
    \/ Run
    \/ EndTick

SpecStcf == InitStcf /\ [][NextStcf]_vars

\* C20 as stated - STCF runs the shortest remaining job: when stcf_schedule
\* is called with a continuing current process, the process it returns has
\* remaining time at most that of every process left in the ready queue.
StcfRunsShortest ==
    [][(ScheduleStep /\ policy = "STCF" /\ Continuing) =>
        \A i \in 1..Len(readyqueue') :
            Remaining(call'.proc) <= Remaining(readyqueue'[i])
      ]_vars

\* sched->acquire of the selected policy.
acquire(pol, m, r) ==
    IF pol \in {"FCFS", "SJF", "STCF", "RR"} THEN fcfs_acquire(m, r)
    ELSE IF pol = "PRIO" THEN prio_acquire(m, r)
    ELSE IF pol = "PA" THEN pa_acquire(m, r)
    ELSE pcp_acquire(m, r)

\* A driver without hold-and-wait: processes are shorter, the running
\* process asks for a resource only while it holds none, asks again for the
\* resource it was refused before it does anything else, and (EndTick) has
\* given back what it holds when its lifespan ends.
InitLive ==
    /\ policy \in Policies
    /\ lifespan \in [Procs -> 1..MaxLifeLive]
    /\ prio_orig \in [Procs -> BasePrios(policy)]
    /\ status = [p \in Procs |-> "NONE"]
    /\ age = [p \in Procs |-> 0]
    /\ prio = prio_orig
    /\ current = NULL
    /\ readyqueue = <<>>
    /\ waitqueue = [r \in Resources |-> <<>>]
    /\ owner = [r \in Resources |-> NULL]
    /\ pc = "sched"
    /\ call = NoCall
    /\ want = [p \in Procs |-> NoRes]

Ask(r) ==
    /\ pc = "acq"
    /\ Holds(current) = {}
    /\ want[current] \in {NoRes, r}
    /\ LET res == acquire(policy, Machine, r)
       IN  /\ Store(res.m)
           /\ pc' = IF res.ok THEN "acq" ELSE "sched"
           /\ call' = [fn |-> "acquire", rid |-> r, ok |-> res.ok, proc |-> NULL]
           /\ want' = [want EXCEPT ![current] = IF res.ok THEN NoRes ELSE r]
    /\ UNCHANGED <<policy, lifespan, prio_orig, age, current>>

Proceed ==
    /\ pc = "acq"
    /\ want[current] = NoRes
    /\ Run

NextLive ==
    \/ Fork
    \/ FcfsSchedule
    \/ SjfSchedule
    \/ StcfSchedule
    \/ RrSchedule
    \/ PrioSchedule
    \/ PaSchedule
    \/ PcpSchedule
    \/ \E r \in Resources : Ask(r)
    \/ Proceed
    \/ \E r \in Resources : FcfsRelease(r)
    \/ \E r \in Resources : PrioRelease(r)
    \/ \E r \in Resources : PaRelease(r)
    \/ \E r \in Resources : PcpRelease(r)
    \/ EndTick

\* schedule has nothing to do: it returned no process and nothing has
\* arrived since.
Idle == pc = "sched" /\ call.fn = "schedule"

\* The tick loop never stops.  It calls schedule again and again (weak
\* fairness of the schedule step, which is enabled exactly when pc is "sched"
\* and the state is not Idle), the process it gets asks again for what it
\* was refused, runs, gives back what it still holds at the end of its
\* lifespan, and the tick ends.
SpecLive ==
    /\ InitLive /\ [][NextLive]_vars
    /\ []<>(pc # "sched" \/ Idle)
    /\ WF_vars(\E r \in Resources : Ask(r))
    /\ WF_vars(Proceed)
    /\ WF_vars(\E r \in Resources :
                  FcfsRelease(r) \/ PrioRelease(r) \/ PaRelease(r) \/ PcpRelease(r))
    /\ WF_vars(EndTick)

\* C21 - completion without hold-and-wait: under every implemented policy
\* each process that has arrived eventually reaches age = lifespan, and each
\* BLOCKED process eventually leaves BLOCKED.
Completion ==
    /\ \A p \in Procs : (status[p] # "NONE") ~> (age[p] = lifespan[p])
    /\ \A p \in Procs : (status[p] = "BLOCKED") ~> (status[p] # "BLOCKED")

\* C21 witness: the owner gave a resource back with two processes waiting;
\* one was woken and the other still waits for the resource, which is free.
CompletionWitness ==
    /\ call.fn = "release"
    /\ owner[call.rid] = NULL /\ waitqueue[call.rid] # <<>>
    /\ \E p \in Procs : want[p] = call.rid /\ InQueue(readyqueue, p)

====
